---- MODULE Spec2Model ----
(***************************************************************************)
(* Model of backend/server.py: the chart service.                          *)
(*                                                                         *)
(* State: the db.charts collection, pyplot's process-wide figure registry, *)
(* the asyncio event loop (which handler is running), the in-flight        *)
(* generate-chart handlers, and the HTTP response sent by the last step.   *)
(***************************************************************************)
EXTENDS Integers, Sequences, FiniteSets, TLC

VARIABLES
    charts,     \* db.charts: documents in insertion order
    figs,       \* pyplot's open figures, oldest first; the last is the current one
    loop,       \* slot whose handler runs on the event loop; 0 when the loop is free
    req,        \* per slot: the generate_chart coroutine's frame
    uuid,       \* number of uuid4() values drawn so far
    calls,      \* number of generate_chart calls started so far
    issued,     \* every 200 response of generate-chart sent so far (client side)
    response    \* the HTTP response sent by the latest step

vars == <<charts, figs, loop, req, uuid, calls, issued, response>>

\* -------------------------------------------------------------------------
\* Bounds
\* -------------------------------------------------------------------------
NSlots == 2         \* generate-chart requests in flight at once
MaxCalls == 3       \* generate-chart calls per behaviour
MaxPrefill == 2     \* small store sizes of the listing specification

Slots == 1..NSlots

\* -------------------------------------------------------------------------
\* Program constants
\* -------------------------------------------------------------------------
ListLimit == 1000       \* to_list(1000)
DefaultWidth == 800
DefaultHeight == 600

None == "None"

\* -------------------------------------------------------------------------
\* CSV bytes and pandas
\* -------------------------------------------------------------------------
\* A cell of a CSV is abstracted to its lexical class.
Col(name, cells) == [name |-> name, cells |-> cells]
Csv(cols) == [kind |-> "csv", cols |-> cols]
Undecodable == [kind |-> "binary", cols |-> <<>>]     \* bytes that are not UTF-8
Blank == [kind |-> "blank", cols |-> <<>>]            \* zero bytes: no header row

Employees ==
    Csv(<<Col("Department", <<"text", "text">>),
          Col("Salary", <<"int", "int">>),
          Col("Age", <<"int", "empty">>)>>)
Flags ==
    Csv(<<Col("Active", <<"bool", "bool">>),
          Col("Score", <<"float", "int">>)>>)
Sparse ==
    Csv(<<Col("Name", <<"text", "empty">>),
          Col("Notes", <<"empty", "empty">>),
          Col("Mixed", <<"bool", "int">>)>>)
HeaderOnly ==
    Csv(<<Col("Department", <<>>), Col("Salary", <<>>)>>)

\* A file name, split at its extension.
Filename(stem, ext) == [stem |-> stem, ext |-> ext]
\* filename.endswith('.csv')
endswith_csv(filename) == filename.ext = ".csv"

\* content.decode('utf-8')
decode(content) ==
    IF content.kind = "binary"
    THEN [ok |-> FALSE, exc |-> "UnicodeDecodeError", text |-> content]
    ELSE [ok |-> TRUE, exc |-> None, text |-> content]

\* The dtype pandas gives a column read from CSV text.
InferDtype(cells) ==
    LET kinds == {cells[i] : i \in DOMAIN cells}
    IN  IF cells = <<>> THEN "object"
        ELSE IF kinds = {"empty"} THEN "float64"
        ELSE IF kinds = {"int"} THEN "int64"
        ELSE IF kinds \subseteq {"int", "float", "empty"} THEN "float64"
        ELSE IF kinds = {"bool"} THEN "bool"
        ELSE "object"

\* pd.read_csv(io.StringIO(text)): the frame's columns with their dtypes.
read_csv(text) ==
    IF text.kind # "csv"
    THEN [ok |-> FALSE, exc |-> "EmptyDataError", columns |-> <<>>]
    ELSE [ok |-> TRUE, exc |-> None,
          columns |-> [i \in DOMAIN text.cols |->
                         [name |-> text.cols[i].name,
                          dtype |-> InferDtype(text.cols[i].cells)]]]

NumberDtypes == {"int64", "float64"}
ObjectDtypes == {"object", "category"}

RECURSIVE SelectNames(_, _)
SelectNames(columns, dtypes) ==
    IF columns = <<>> THEN <<>>
    ELSE LET rest == SelectNames(Tail(columns), dtypes)
         IN  IF Head(columns).dtype \in dtypes
             THEN <<Head(columns).name>> \o rest
             ELSE rest

\* df.select_dtypes(include=...).columns.tolist()
select_dtypes(df, dtypes) == SelectNames(df.columns, dtypes)

\* df.columns.tolist()
columns_tolist(df) == [i \in DOMAIN df.columns |-> df.columns[i].name]

\* `name in df.columns`
InColumns(name, df) == \E i \in DOMAIN df.columns : df.columns[i].name = name

\* base64.b64encode(content).decode('utf-8')
b64encode(content) == [enc |-> "base64", bytes |-> content]
\* A data string that is not the base64 of anything.
Garbage == [enc |-> "garbage", bytes |-> Blank]

\* base64.b64decode(data)
b64decode(data) ==
    IF data.enc = "base64"
    THEN [ok |-> TRUE, exc |-> None, bytes |-> data.bytes]
    ELSE [ok |-> FALSE, exc |-> "binascii.Error", bytes |-> Blank]

\* -------------------------------------------------------------------------
\* Chart configuration (ChartConfig) and the ChartData document
\* -------------------------------------------------------------------------
\* d.get(key, default)
Get(d, key, default) == IF key \in DOMAIN d THEN d[key] ELSE default

\* ChartConfig(**config): chart_type and x_column are required strings, the
\* other fields take their defaults when the request leaves them out.
ChartConfig(config) ==
    IF \/ ~({"chart_type", "x_column"} \subseteq DOMAIN config)
       \/ config.chart_type = None
       \/ config.x_column = None
    THEN [ok |-> FALSE, exc |-> "ValidationError", value |-> [chart_type |-> None]]
    ELSE [ok |-> TRUE, exc |-> None,
          value |-> [chart_type |-> config.chart_type,
                     x_column |-> config.x_column,
                     y_column |-> Get(config, "y_column", None),
                     color_scheme |-> Get(config, "color_scheme", "viridis"),
                     title |-> Get(config, "title", "Chart"),
                     width |-> Get(config, "width", DefaultWidth),
                     height |-> Get(config, "height", DefaultHeight)]]

\* Mutant of uuid4: the id is drawn once, when the class is defined, instead
\* of by a default_factory at each construction.
uuid4_once(n) == 1

\* uuid.uuid4(): the n-th draw; draws never collide.
uuid4(n) == n

\* datetime.utcnow() at the n-th construction of a ChartData.
utcnow(n) == n

\* Mutant of ChartData: the record is built without the rendered image.
ChartData_without_image(id, filename, data, config, chart_image, timestamp) ==
    [id |-> id, filename |-> filename, data |-> data, config |-> config,
     chart_image |-> b64encode([kind |-> "png", ops |-> <<>>]),
     timestamp |-> timestamp]

\* ChartData(filename=..., data=..., config=..., chart_image=...).dict()
ChartData(id, filename, data, config, chart_image, timestamp) ==
    [id |-> id, filename |-> filename, data |-> data, config |-> config,
     chart_image |-> chart_image, timestamp |-> timestamp]

\* -------------------------------------------------------------------------
\* db.charts
\* -------------------------------------------------------------------------
\* insert_one(doc): the driver adds a fresh _id and the document is appended.
with_id(doc, oid) ==
    [k \in DOMAIN doc \cup {"_id"} |-> IF k = "_id" THEN oid ELSE doc[k]]
insert_one(coll, doc) == Append(coll, with_id(doc, Len(coll) + 1))

\* find().to_list(length): the first `length` documents.
to_list(coll, length) ==
    SubSeq(coll, 1, IF Len(coll) < length THEN Len(coll) ELSE length)

\* Mutant of find_one: the filter is dropped, the first document is returned.
find_one_unfiltered(coll, chart_id) ==
    IF coll = <<>> THEN <<>> ELSE <<coll[1]>>

\* find_one({"id": chart_id}): the first document with that id, if any.
find_one(coll, chart_id) ==
    LET hits == {i \in DOMAIN coll : coll[i].id = chart_id}
    IN  IF hits = {} THEN <<>>
        ELSE <<coll[CHOOSE i \in hits : \A j \in hits : i <= j]>>

\* Mutant of del_id: the _id field is left in the document.
del_id_kept(chart) == chart

\* if '_id' in chart: del chart['_id']
del_id(chart) == [k \in DOMAIN chart \ {"_id"} |-> chart[k]]

\* -------------------------------------------------------------------------
\* pyplot
\* -------------------------------------------------------------------------
Cmaps == {"viridis", "plasma", "Blues"}

\* plt.cm.get_cmap(name) raises ValueError for a name it does not know;
\* None selects the default map.
cmap_known(name) == name = None \/ name \in Cmaps

\* plt.figure(): a new figure, numbered after the highest open one, becomes
\* the current figure.  owner and drawers record which call opened it and
\* which calls drew on it.
plt_figure(fs, call) ==
    LET nums == {fs[i].num : i \in DOMAIN fs}
        next == IF nums = {} THEN 1
                ELSE 1 + CHOOSE n \in nums : \A m \in nums : m <= n
    IN  Append(fs, [num |-> next, owner |-> call, ops |-> <<>>, drawers |-> {}])

\* plt.<draw>(...): drawing goes to the current figure (gcf), which pyplot
\* opens when there is none.
plt_draw(fs, call, ops) ==
    LET open == IF fs = <<>> THEN plt_figure(fs, call) ELSE fs
        n == Len(open)
    IN  [open EXCEPT ![n].ops = @ \o ops, ![n].drawers = @ \cup {call}]

\* plt.savefig(buffer, format='png'): the current figure as PNG bytes.
plt_savefig(fs) ==
    [kind |-> "png", ops |-> IF fs = <<>> THEN <<>> ELSE fs[Len(fs)].ops]

\* plt.close(): closes the current figure.
plt_close(fs) == IF fs = <<>> THEN fs ELSE SubSeq(fs, 1, Len(fs) - 1)

\* -------------------------------------------------------------------------
\* generate_chart: the pure parts
\* -------------------------------------------------------------------------
ChartRequest(filename, data, config) ==
    [filename |-> filename, data |-> data, config |-> config]

\* Lines 128-138: decode the data, parse it, read the configuration.
load(chart_request) ==
    LET raw == b64decode(chart_request.data)
        txt == decode(raw.bytes)
        df  == read_csv(txt.text)
        config == chart_request.config
    IN  IF ~raw.ok THEN [ok |-> FALSE, exc |-> raw.exc, df |-> df]
        ELSE IF ~txt.ok THEN [ok |-> FALSE, exc |-> txt.exc, df |-> df]
        ELSE IF ~df.ok THEN [ok |-> FALSE, exc |-> df.exc, df |-> df]
        ELSE IF "chart_type" \notin DOMAIN config \/ "x_column" \notin DOMAIN config
             THEN [ok |-> FALSE, exc |-> "KeyError", df |-> df]
        ELSE [ok |-> TRUE, exc |-> None, df |-> df]

Drawn(op, chart_request, y) ==
    [op |-> op, data |-> chart_request.data, x |-> chart_request.config.x_column,
     y |-> y, cmap |-> Get(chart_request.config, "color_scheme", "viridis")]

\* plt.title(title)
Title(chart_request) ==
    [op |-> "title", text |-> Get(chart_request.config, "title", "Chart")]

\* Lines 143-209: what the chart-type branches draw, or the exception they
\* raise, on a frame df.
draw(df, chart_request) ==
    LET config == chart_request.config
        chart_type == config.chart_type
        x_column == config.x_column
        y_column == Get(config, "y_column", None)
        color_scheme == Get(config, "color_scheme", "viridis")
        has_y == y_column # None /\ y_column # "" /\ InColumns(y_column, df)
        raise(exc) == [ok |-> FALSE, exc |-> exc, ops |-> <<>>]
        done(ops) == [ok |-> TRUE, exc |-> None, ops |-> ops \o <<Title(chart_request)>>]
        plot(op, y) ==
            IF ~InColumns(x_column, df) THEN raise("KeyError")
            ELSE IF ~cmap_known(color_scheme) THEN raise("ValueError")
            ELSE done(<<Drawn(op, chart_request, y)>>)
    IN  CASE chart_type = "bar" ->
               IF has_y THEN plot("bar", y_column) ELSE plot("bar", "Count")
          [] chart_type = "line" ->
               IF has_y THEN plot("line", y_column) ELSE plot("line", "Index")
          [] chart_type = "scatter" ->
               IF has_y THEN plot("scatter", y_column)
               ELSE raise("HTTPException(400)")
          [] chart_type = "pie" ->
               IF has_y THEN plot("pie", y_column) ELSE plot("pie", "Count")
          [] chart_type = "histogram" -> plot("hist", "Frequency")
          [] chart_type = "heatmap" ->
               IF Len(select_dtypes(df, NumberDtypes)) < 2
               THEN raise("HTTPException(400)")
               ELSE IF ~cmap_known(color_scheme) THEN raise("ValueError")
               ELSE done(<<Drawn("imshow", chart_request, None)>>)
          [] OTHER -> done(<<>>)

\* -------------------------------------------------------------------------
\* HTTP responses
\* -------------------------------------------------------------------------
NoRequest == ChartRequest(Filename("", ""), Garbage, [chart_type |-> None])
NoFile == [filename |-> Filename("", ""), content |-> Blank]
NoImage == b64encode([kind |-> "png", ops |-> <<>>])

Response(endpoint, status) ==
    [endpoint |-> endpoint, status |-> status,
     chart_request |-> NoRequest, chart_id |-> 0, file |-> NoFile,
     detail |-> "", id |-> 0, chart_image |-> NoImage,
     charts |-> <<>>, upload |-> <<>>]

NoResponse == Response("none", 0)

\* Lines 234-235: except Exception as e: raise HTTPException(status_code=500).
\* HTTPException is an Exception, so the handler's own 400s land here too.
except_Exception(chart_request, exc) ==
    [Response("generate-chart", 500) EXCEPT
        !.chart_request = chart_request, !.detail = exc]

\* Lines 228-232
generate_chart_return(chart_request, id, image_base64) ==
    [Response("generate-chart", 200) EXCEPT
        !.chart_request = chart_request, !.id = id,
        !.chart_image = image_base64, !.detail = "Chart generated successfully"]

\* -------------------------------------------------------------------------
\* The event loop and the handlers' frames
\* -------------------------------------------------------------------------
NoDoc == ChartData(0, Filename("", ""), Garbage, [chart_type |-> None], NoImage, 0)

IdleFrame ==
    [pc |-> "idle", call |-> 0, chart_request |-> NoRequest,
     image_base64 |-> NoImage, doc |-> NoDoc]

\* Mutant of Suspends: the handler also awaits between its pyplot calls, after
\* opening the figure and after drawing on it.
Suspends_while_rendering(stmt) == stmt \in {"figure", "draw", "insert_one"}

\* The statements of generate_chart at which the coroutine yields to the
\* event loop: only `await db.charts.insert_one(...)` (line 226).
Suspends(stmt) == stmt = "insert_one"

\* Slot s may run: the loop is free, or s is the handler already running.
Runnable(s) == loop \in {0, s}

\* The handler of slot s goes on to `frame`, having executed `stmt`.
Goto(s, frame, stmt) ==
    /\ req' = [req EXCEPT ![s] = frame]
    /\ loop' = IF Suspends(stmt) THEN 0 ELSE s
    /\ response' = NoResponse

\* The handler of slot s ends in the except clause.
Raise(s, chart_request, exc) ==
    /\ req' = [req EXCEPT ![s] = IdleFrame]
    /\ loop' = 0
    /\ response' = except_Exception(chart_request, exc)

\* -------------------------------------------------------------------------
\* POST /api/generate-chart
\* -------------------------------------------------------------------------
\* Lines 126-141: decode, parse, read the configuration, open the figure.
\* Slots only label the handlers in flight: a new request takes the lowest
\* free one.
generate_chart_begin(s, chart_request) ==
    /\ loop = 0
    /\ req[s].pc = "idle"
    /\ \A t \in Slots : t < s => req[t].pc # "idle"
    /\ calls' = calls + 1
    /\ LET l == load(chart_request)
       IN  IF ~l.ok
           THEN /\ Raise(s, chart_request, l.exc)
                /\ UNCHANGED figs
           ELSE /\ figs' = plt_figure(figs, calls + 1)
                /\ Goto(s, [IdleFrame EXCEPT !.pc = "figure", !.call = calls + 1,
                                             !.chart_request = chart_request],
                        "figure")
    /\ UNCHANGED <<charts, uuid, issued>>

\* Lines 143-209: the chart-type branch, the title and the layout.
generate_chart_draw(s) ==
    /\ Runnable(s)
    /\ req[s].pc = "figure"
    /\ LET chart_request == req[s].chart_request
           d == draw(load(chart_request).df, chart_request)
       IN  \/ /\ d.ok
              /\ figs' = plt_draw(figs, req[s].call, d.ops)
              /\ Goto(s, [req[s] EXCEPT !.pc = "drawn"], "draw")
           \/ /\ ~d.ok
              /\ Raise(s, chart_request, d.exc)
              /\ UNCHANGED figs
           \/ \* the plotting library rejects the column's values
              /\ d.ok
              /\ Raise(s, chart_request, "RenderingFailure")
              /\ UNCHANGED figs
    /\ UNCHANGED <<charts, uuid, calls, issued>>

\* Lines 212-215: the current figure as a base64 PNG.
generate_chart_savefig(s) ==
    /\ Runnable(s)
    /\ req[s].pc = "drawn"
    /\ Goto(s, [req[s] EXCEPT !.pc = "saved",
                              !.image_base64 = b64encode(plt_savefig(figs))],
            "savefig")
    /\ UNCHANGED <<charts, figs, uuid, calls, issued>>

\* Line 216
generate_chart_close(s) ==
    /\ Runnable(s)
    /\ req[s].pc = "saved"
    /\ figs' = plt_close(figs)
    /\ Goto(s, [req[s] EXCEPT !.pc = "closed"], "close")
    /\ UNCHANGED <<charts, uuid, calls, issued>>

\* Lines 219-226: build the ChartData and start the insert.
generate_chart_insert(s) ==
    /\ Runnable(s)
    /\ req[s].pc = "closed"
    /\ LET chart_request == req[s].chart_request
           config == ChartConfig(chart_request.config)
       IN  IF ~config.ok
           THEN /\ Raise(s, chart_request, config.exc)
                /\ UNCHANGED uuid
           ELSE /\ uuid' = uuid + 1
                /\ Goto(s, [req[s] EXCEPT
                              !.pc = "insert",
                              !.doc = ChartData(uuid4(uuid + 1),
                                                chart_request.filename,
                                                chart_request.data,
                                                config.value,
                                                req[s].image_base64,
                                                utcnow(uuid + 1))],
                        "insert_one")
    /\ UNCHANGED <<charts, figs, calls, issued>>

\* Lines 226-232: the insert completes and the handler returns.
generate_chart_inserted(s) ==
    /\ Runnable(s)
    /\ req[s].pc = "insert"
    /\ charts' = insert_one(charts, req[s].doc)
    /\ response' = generate_chart_return(req[s].chart_request, req[s].doc.id,
                                         req[s].image_base64)
    /\ issued' = issued \cup {[id |-> req[s].doc.id,
                               chart_image |-> req[s].image_base64,
                               chart_request |-> req[s].chart_request]}
    /\ req' = [req EXCEPT ![s] = IdleFrame]
    /\ loop' = 0
    /\ UNCHANGED <<figs, uuid, calls>>

\* Line 226: the driver raises and nothing is written.
generate_chart_insert_failed(s) ==
    /\ Runnable(s)
    /\ req[s].pc = "insert"
    /\ Raise(s, req[s].chart_request, "PyMongoError")
    /\ UNCHANGED <<charts, figs, uuid, calls, issued>>

\* -------------------------------------------------------------------------
\* GET /api/charts, GET /api/chart/{chart_id}, POST /api/upload-csv
\* -------------------------------------------------------------------------
get_charts ==
    /\ loop = 0
    /\ LET found == to_list(charts, ListLimit)
       IN  response' = [Response("get_charts", 200) EXCEPT
                           !.charts = [i \in DOMAIN found |-> del_id(found[i])]]
    /\ UNCHANGED <<charts, figs, loop, req, uuid, calls, issued>>

get_chart(chart_id) ==
    /\ loop = 0
    /\ LET chart == find_one(charts, chart_id)
       IN  response' =
             IF chart = <<>>
             THEN [Response("get_chart", 404) EXCEPT
                     !.chart_id = chart_id, !.detail = "Chart not found"]
             ELSE [Response("get_chart", 200) EXCEPT
                     !.chart_id = chart_id, !.charts = <<del_id(chart[1])>>]
    /\ UNCHANGED <<charts, figs, loop, req, uuid, calls, issued>>

upload_csv(file) ==
    /\ loop = 0
    /\ LET txt == decode(file.content)
           df == read_csv(txt.text)
           bad(detail) == [Response("upload-csv", 400) EXCEPT
                             !.file = file, !.detail = detail]
       IN  response' =
             IF ~endswith_csv(file.filename) THEN bad("Only CSV files are allowed")
             ELSE IF ~txt.ok THEN bad(txt.exc)
             ELSE IF ~df.ok THEN bad(df.exc)
             ELSE [Response("upload-csv", 200) EXCEPT
                     !.file = file,
                     !.upload = <<[filename |-> file.filename,
                                   data |-> b64encode(file.content),
                                   columns |-> columns_tolist(df),
                                   numeric_columns |-> select_dtypes(df, NumberDtypes),
                                   categorical_columns |-> select_dtypes(df, ObjectDtypes),
                                   column_count |-> Len(df.columns)]>>]
    /\ UNCHANGED <<charts, figs, loop, req, uuid, calls, issued>>

\* -------------------------------------------------------------------------
\* Inputs
\* -------------------------------------------------------------------------
EmployeesCsv == Filename("employees", ".csv")

OnEmployees(config) == ChartRequest(EmployeesCsv, b64encode(Employees), config)

ChartRequests ==
    { \* the requests of test_chart_generation
      OnEmployees([chart_type |-> "bar", x_column |-> "Department",
                   y_column |-> "Salary", color_scheme |-> "viridis"]),
      OnEmployees([chart_type |-> "histogram", x_column |-> "Age"]),
      \* a y column the dataset does not have
      OnEmployees([chart_type |-> "bar", x_column |-> "Department",
                   y_column |-> "Bonus"]),
      \* scatter without y
      OnEmployees([chart_type |-> "scatter", x_column |-> "Age",
                   color_scheme |-> "plasma"]),
      \* heatmap over one numeric column
      ChartRequest(Filename("flags", ".csv"), b64encode(Flags),
                   [chart_type |-> "heatmap", x_column |-> "Score"]),
      \* heatmap whose x_column is null: drawn, then rejected by ChartConfig
      OnEmployees([chart_type |-> "heatmap", x_column |-> None]),
      \* an x column the dataset does not have
      OnEmployees([chart_type |-> "pie", x_column |-> "Height"]),
      \* a colour scheme pyplot does not know
      OnEmployees([chart_type |-> "line", x_column |-> "Age",
                   color_scheme |-> "rainbow9"]),
      \* a configuration without x_column
      OnEmployees([chart_type |-> "bar"]),
      \* data that does not decode, and data that does not parse
      ChartRequest(EmployeesCsv, Garbage,
                   [chart_type |-> "bar", x_column |-> "Department"]),
      ChartRequest(Filename("blob", ".csv"), b64encode(Undecodable),
                   [chart_type |-> "bar", x_column |-> "Department"]),
      ChartRequest(Filename("empty", ".csv"), b64encode(Blank),
                   [chart_type |-> "bar", x_column |-> "Department"]) }

\* Ids a client may ask for: the first two a run issues, and one no run issues.
ChartIds == {1, 2, MaxCalls + 1}

Files ==
    { [filename |-> EmployeesCsv, content |-> Employees],
      [filename |-> Filename("flags", ".csv"), content |-> Flags],
      [filename |-> Filename("sparse", ".csv"), content |-> Sparse],
      [filename |-> Filename("header", ".csv"), content |-> HeaderOnly],
      [filename |-> Filename("blob", ".csv"), content |-> Undecodable],
      [filename |-> Filename("employees", ".xlsx"), content |-> Employees] }

\* -------------------------------------------------------------------------
\* The service
\* -------------------------------------------------------------------------
Init ==
    /\ charts = <<>>
    /\ figs = <<>>
    /\ loop = 0
    /\ req = [s \in Slots |-> IdleFrame]
    /\ uuid = 0
    /\ calls = 0
    /\ issued = {}
    /\ response = NoResponse

Next ==
    \/ /\ calls < MaxCalls
       /\ \E s \in Slots : \E r \in ChartRequests : generate_chart_begin(s, r)
    \/ \E s \in Slots : generate_chart_draw(s)
    \/ \E s \in Slots : generate_chart_savefig(s)
    \/ \E s \in Slots : generate_chart_close(s)
    \/ \E s \in Slots : generate_chart_insert(s)
    \/ \E s \in Slots : generate_chart_inserted(s)
    \/ \E s \in Slots : generate_chart_insert_failed(s)
    \/ get_charts
    \/ \E chart_id \in ChartIds : get_chart(chart_id)
    \/ \E file \in Files : upload_csv(file)

Spec == Init /\ [][Next]_vars

\* -------------------------------------------------------------------------
\* The service on a store that already holds records
\* -------------------------------------------------------------------------
\* The store after n successful calls with the first request of
\* test_chart_generation, one after the other.
ListRequest ==
    OnEmployees([chart_type |-> "bar", x_column |-> "Department",
                 y_column |-> "Salary", color_scheme |-> "viridis"])

ListImage ==
    b64encode([kind |-> "png", ops |-> draw(load(ListRequest).df, ListRequest).ops])

ListDoc(i) ==
    ChartData(uuid4(i), ListRequest.filename, ListRequest.data,
              ChartConfig(ListRequest.config).value, ListImage, utcnow(i))

ListSizes == (0..MaxPrefill) \cup {ListLimit - 1, ListLimit, ListLimit + 1}

ListIds == {1, ListLimit, ListLimit + 1}

InitList ==
    \E n \in ListSizes :
        /\ charts = [i \in 1..n |-> with_id(ListDoc(i), i)]
        /\ figs = <<>>
        /\ loop = 0
        /\ req = [s \in Slots |-> IdleFrame]
        /\ uuid = n
        /\ calls = 0
        /\ issued = {[id |-> uuid4(i), chart_image |-> ListImage,
                      chart_request |-> ListRequest] : i \in 1..n}
        /\ response = NoResponse

NextList ==
    \/ /\ calls < MaxCalls
       /\ \E s \in Slots : generate_chart_begin(s, ListRequest)
    \/ \E s \in Slots : generate_chart_draw(s)
    \/ \E s \in Slots : generate_chart_savefig(s)
    \/ \E s \in Slots : generate_chart_close(s)
    \/ \E s \in Slots : generate_chart_insert(s)
    \/ \E s \in Slots : generate_chart_inserted(s)
    \/ \E s \in Slots : generate_chart_insert_failed(s)
    \/ get_charts
    \/ \E chart_id \in ListIds : get_chart(chart_id)

SpecList == InitList /\ [][NextList]_vars

\* -------------------------------------------------------------------------
\* Properties
\* -------------------------------------------------------------------------
\* The frame a request's data parses to.
FrameOf(data) == read_csv(decode(b64decode(data).bytes).text)

\* C1's user-input errors: scatter whose y column is absent or no column of
\* the dataset, heatmap over fewer than 2 numeric columns, bar/line/pie/
\* histogram whose x column is no column of the dataset.
UserInputError(r) ==
    /\ load(r).ok
    /\ LET df == load(r).df
           y == Get(r.config, "y_column", None)
       IN  \/ r.config.chart_type = "scatter" /\ (y = None \/ ~InColumns(y, df))
           \/ r.config.chart_type = "heatmap"
                /\ Cardinality({i \in DOMAIN df.columns :
                                  df.columns[i].dtype \in {"int64", "float64"}}) < 2
           \/ r.config.chart_type \in {"bar", "line", "pie", "histogram"}
                /\ ~InColumns(r.config.x_column, df)

\* C1: generate-chart answers every user-input error (scatter without a usable
\* y column, heatmap over fewer than 2 numeric columns, a missing x column)
\* with status 400, never 500.
C1_UserErrorsAnswered400 ==
    (response.endpoint = "generate-chart" /\ UserInputError(response.chart_request))
        => response.status = 400

\* A stored record carries the image, data and config of the call that made it.
FullyPersisted(doc) ==
    /\ {"id", "filename", "data", "config", "chart_image"} \subseteq DOMAIN doc
    /\ doc.chart_image # NoImage
    /\ doc.chart_image.bytes.ops # <<>>
    /\ \E r \in issued :
          /\ r.id = doc.id
          /\ r.chart_image = doc.chart_image
          /\ r.chart_request.data = doc.data
          /\ \A k \in DOMAIN r.chart_request.config :
                doc.config[k] = r.chart_request.config[k]

StoreFullyPersisted == \A i \in DOMAIN charts : FullyPersisted(charts[i])

\* C2: no partial success: every stored record carries a non-empty image with
\* its source data and config, and a generate-chart call that returns an error
\* leaves the stored records as they were.
C2_NoPartialSuccess ==
    [][ /\ StoreFullyPersisted'
        /\ (response'.endpoint = "generate-chart" /\ response'.status # 200)
              => charts' = charts ]_vars

\* C2's case: a call failed at the insert while the store holds records.
C2_Witness ==
    /\ response.endpoint = "generate-chart"
    /\ response.status = 500
    /\ response.detail = "PyMongoError"
    /\ Len(charts) >= 1

\* C3: whenever no generate-chart call is in progress, no figure is open.
C3_NoFigureLeftOpen ==
    (\A s \in Slots : req[s].pc = "idle") => figs = <<>>

\* C4: GET /api/chart/i after a generate-chart that returned id i gives the
\* record of that call: its id, filename and data, its config with the
\* defaults filled in, the image the call returned, and no _id.
C4_SaveGetRoundTrip ==
    \A r \in issued :
        (response.endpoint = "get_chart" /\ response.chart_id = r.id) =>
            /\ response.status = 200
            /\ Len(response.charts) = 1
            /\ LET c == response.charts[1]
                   given == r.chart_request.config
               IN  /\ c.id = r.id
                   /\ c.filename = r.chart_request.filename
                   /\ c.data = r.chart_request.data
                   /\ c.chart_image = r.chart_image
                   /\ "_id" \notin DOMAIN c
                   /\ DOMAIN c.config = {"chart_type", "x_column", "y_column",
                                         "color_scheme", "title", "width", "height"}
                   /\ \A k \in DOMAIN given : c.config[k] = given[k]
                   /\ "y_column" \notin DOMAIN given => c.config.y_column = None
                   /\ "color_scheme" \notin DOMAIN given => c.config.color_scheme = "viridis"
                   /\ "title" \notin DOMAIN given => c.config.title = "Chart"
                   /\ "width" \notin DOMAIN given => c.config.width = 800
                   /\ "height" \notin DOMAIN given => c.config.height = 600

\* C4's case: the first of several records is read back, and its request
\* left the colour scheme to the default.
C4_Witness ==
    /\ response.endpoint = "get_chart"
    /\ response.status = 200
    /\ Len(charts) >= 2
    /\ response.chart_id = charts[1].id
    /\ \E r \in issued : /\ r.id = response.chart_id
                         /\ "color_scheme" \notin DOMAIN r.chart_request.config

\* C5: GET /api/chart/{id} for an id no successful generate-chart has returned
\* answers 404 and leaves the store unchanged.
C5_UnknownIdNotFound ==
    [][ (response'.endpoint = "get_chart"
            /\ \A r \in issued : r.id # response'.chart_id)
          => (response'.status = 404 /\ charts' = charts) ]_vars

\* C5's case: an id never issued is asked of a store that holds records.
C5_Witness ==
    /\ response.endpoint = "get_chart"
    /\ response.status = 404
    /\ charts # <<>>
    /\ \A r \in issued : r.id # response.chart_id

\* C6: upload-csv classifies every column as exactly one of numeric or
\* categorical: the two lists are disjoint and together are the columns.
C6_ColumnsPartitioned ==
    (response.endpoint = "upload-csv" /\ response.status = 200) =>
        LET u == response.upload[1]
            numeric == {u.numeric_columns[i] : i \in DOMAIN u.numeric_columns}
            categorical == {u.categorical_columns[i] : i \in DOMAIN u.categorical_columns}
            columns == {u.columns[i] : i \in DOMAIN u.columns}
        IN  /\ numeric \cap categorical = {}
            /\ numeric \cup categorical = columns

\* C7: GET /api/charts returns one entry per stored record, none missing and
\* none duplicated, and no entry has the _id field.
C7_ListsEveryRecord ==
    response.endpoint = "get_charts" =>
        /\ Len(response.charts) = Len(charts)
        /\ \A i \in DOMAIN response.charts :
              /\ response.charts[i].id = charts[i].id
              /\ "_id" \notin DOMAIN response.charts[i]

\* C8: the store is append-only: a successful generate-chart adds exactly one
\* record under an id no stored record has and changes no other record;
\* upload-csv, the two reads and failing generate-chart calls change nothing.
C8_AppendOnly ==
    [][ /\ \/ charts' = charts
           \/ /\ Len(charts') = Len(charts) + 1
              /\ SubSeq(charts', 1, Len(charts)) = charts
              /\ \A i \in DOMAIN charts : charts[i].id # charts'[Len(charts')].id
              /\ response'.endpoint = "generate-chart"
              /\ response'.status = 200
              /\ response'.id = charts'[Len(charts')].id
        /\ (response'.endpoint = "generate-chart" /\ response'.status = 200)
              => Len(charts') = Len(charts) + 1
        /\ (\/ response'.endpoint \in {"upload-csv", "get_charts", "get_chart"}
            \/ (response'.endpoint = "generate-chart" /\ response'.status # 200))
              => charts' = charts ]_vars

\* C8's case: a successful call has added a record to a store that held one.
C8_Witness ==
    /\ Len(charts) >= 2
    /\ response.endpoint = "generate-chart"
    /\ response.status = 200
    /\ response.id = charts[Len(charts)].id

\* C9: every stored record of a chart type other than heatmap has a config
\* whose x column, and y column when one is given, are columns of its data.
C9_StoredColumnsExist ==
    \A i \in DOMAIN charts :
        LET c == charts[i].config
            df == FrameOf(charts[i].data)
        IN  c.chart_type \in {"bar", "line", "scatter", "pie", "histogram"} =>
                /\ InColumns(c.x_column, df)
                /\ c.y_column # None => InColumns(c.y_column, df)

\* Slot s is between opening its figure and closing it.
InRender(s) == req[s].pc \in {"figure", "drawn", "saved"}

\* Every open figure was drawn on by the call that opened it only.
FiguresOwnDrawing ==
    \A i \in DOMAIN figs : figs[i].drawers \subseteq {figs[i].owner}

\* Every stored image is drawn from its record's own data and config.
ImagesOwnData ==
    \A i \in DOMAIN charts :
        LET ops == charts[i].chart_image.bytes.ops
        IN  \A j \in DOMAIN ops :
              IF ops[j].op = "title"
              THEN ops[j].text = charts[i].config.title
              ELSE /\ ops[j].data = charts[i].data
                   /\ ops[j].x = charts[i].config.x_column
                   /\ ops[j].cmap = charts[i].config.color_scheme

\* C10: concurrent renders are isolated: from opening its figure to closing
\* it a request runs with no step of another request in between, every
\* figure is drawn on by the call that opened it only, and every stored image
\* comes from its record's own data and config.
C10_RendersIsolated ==
    [][ /\ FiguresOwnDrawing'
        /\ ImagesOwnData'
        /\ \A s \in Slots :
              InRender(s) =>
                 /\ \A t \in Slots \ {s} : req'[t] = req[t]
                 /\ response'.endpoint \in {"none", "generate-chart"} ]_vars

\* C10's case: a request renders while another is suspended in its insert.
C10_Witness ==
    \E s \in Slots : \E t \in Slots \ {s} :
        req[s].pc = "insert" /\ InRender(t) /\ req[t].pc = "drawn"

====
